---- MODULE Spec2Model ----
(***************************************************************************)
(* A model of src/App.tsx (VoronoiRelevanceGrid): the relevance scoring,   *)
(* the per-frame physics / collision / clamp / cell generation of          *)
(* `animate`, and the requestAnimationFrame life cycle of the component.   *)
(*                                                                         *)
(* Numbers.  The program computes in IEEE doubles.  Here every length is a *)
(* fixed-point integer counting 1/SCALE of a pixel, every relevance score  *)
(* counts hundredths, and every product with a decimal constant is rounded *)
(* to the nearest unit (Round).  The one non-finite double the program     *)
(* could produce, NaN, is the distinguished value NaN, which arithmetic    *)
(* propagates and comparisons reject, as IEEE arithmetic does.             *)
(*                                                                         *)
(* Strings are sequences of one-character strings, so that toLowerCase,    *)
(* includes and === are computed and not assumed.                          *)
(***************************************************************************)
EXTENDS Integers, Sequences, FiniteSets, TLC

VARIABLES
  phase,       \* "constructed" | "mounted" | "unmounted": the component's life cycle
  query,       \* useState('') : the search text (line 79)
  cells,       \* useState<Cell[]>([]) : the published cells (line 80)
  points,      \* pointsRef.current (line 82)
  requestRef,  \* requestRef.current, 0 for undefined (line 83)
  pending,     \* the host's list of requested animation frame callbacks (handles)
  lastHandle,  \* the handle the host returned last
  ticks,       \* how many times animate has run
  quiet,       \* how many times animate has run since the query was last empty and unchanged
  coincident   \* how many pairs the last collision pass met at dist = 0

vars ==
  <<phase, query, cells, points, requestRef, pending, lastHandle, ticks, quiet, coincident>>

---------------------------------------------------------------------------
(* Bounds of the model *)

SCALE == 10
\* ticks the main specification explores
MaxTicks == 3
\* the host's handles are 1..MaxHandle, handed out in a cycle
MaxHandle == 3
\* SettleSpec: ticks during which a non-empty query may still be cleared
GrowTicks == 20
\* SettleSpec: ticks that follow
SettleTicks == 54
\* the distance from BASE_RADIUS called "within epsilon", in 1/SCALE pixel
Epsilon == 5

---------------------------------------------------------------------------
(* Numbers *)

NaN == -(2^30)

\* n/d rounded to the nearest integer (d > 0)
Round(n, d) == (2 * n + d) \div (2 * d)

\* Heron's iteration from a guess x >= sqrt(n), x > 0: the integer part of sqrt(n)
RECURSIVE SqrtFrom(_, _)
SqrtFrom(n, x) ==
  LET y == (x + n \div x) \div 2
  IN  IF y >= x THEN x ELSE SqrtFrom(n, y)

\* Math.sqrt(a * a + b * b), rounded to the nearest unit
Hypot(a, b) ==
  LET n == a * a + b * b
      s == IF n = 0 THEN 0
           ELSE SqrtFrom(n, (IF a < 0 THEN -a ELSE a) + (IF b < 0 THEN -b ELSE b))
  IN  IF n - s * s > s THEN s + 1 ELSE s

Add(a, b) == IF a = NaN \/ b = NaN THEN NaN ELSE a + b
Sub(a, b) == IF a = NaN \/ b = NaN THEN NaN ELSE a - b

\* Math.max(lo, Math.min(hi, v)): NaN in, NaN out
Clamp(v, lo, hi) ==
  IF v = NaN THEN NaN ELSE IF v < lo THEN lo ELSE IF v > hi THEN hi ELSE v

---------------------------------------------------------------------------
(* Mock data (lines 34-47).  The image URL of an item is never read by the *)
(* logic modelled here and is left out.                                    *)

MOCK_ITEMS ==
  << [id |-> "1",
      title |-> <<"N","e","o","n"," ","T","o","k","y","o">>,
      category |-> <<"C","y","b","e","r","p","u","n","k">>,
      tags |-> <<<<"c","i","t","y">>,
                 <<"n","i","g","h","t">>,
                 <<"l","i","g","h","t","s">>,
                 <<"n","e","o","n">>>>],
     [id |-> "2",
      title |-> <<"A","l","p","i","n","e"," ","S","o","l","i","t","u","d","e">>,
      category |-> <<"N","a","t","u","r","e">>,
      tags |-> <<<<"m","o","u","n","t","a","i","n">>,
                 <<"s","n","o","w">>,
                 <<"w","i","n","t","e","r">>,
                 <<"p","e","a","c","e">>>>],
     [id |-> "3",
      title |-> <<"D","e","s","e","r","t"," ","M","i","r","a","g","e">>,
      category |-> <<"N","a","t","u","r","e">>,
      tags |-> <<<<"s","a","n","d">>,
                 <<"h","e","a","t">>,
                 <<"d","r","y">>,
                 <<"o","r","a","n","g","e">>>>],
     [id |-> "4",
      title |-> <<"D","e","e","p"," ","O","c","e","a","n">>,
      category |-> <<"A","b","s","t","r","a","c","t">>,
      tags |-> <<<<"b","l","u","e">>,
                 <<"w","a","t","e","r">>,
                 <<"d","a","r","k">>,
                 <<"m","y","s","t","e","r","y">>>>],
     [id |-> "5",
      title |-> <<"U","r","b","a","n"," ","J","u","n","g","l","e">>,
      category |-> <<"A","r","c","h","i","t","e","c","t","u","r","e">>,
      tags |-> <<<<"b","u","i","l","d","i","n","g">>,
                 <<"g","r","e","e","n">>,
                 <<"c","i","t","y">>,
                 <<"m","o","d","e","r","n">>>>],
     [id |-> "6",
      title |-> <<"C","o","s","m","i","c"," ","D","u","s","t">>,
      category |-> <<"S","p","a","c","e">>,
      tags |-> <<<<"s","t","a","r","s">>,
                 <<"g","a","l","a","x","y">>,
                 <<"p","u","r","p","l","e">>,
                 <<"d","u","s","t">>>>],
     [id |-> "7",
      title |-> <<"G","l","a","s","s"," ","P","r","i","s","m">>,
      category |-> <<"A","b","s","t","r","a","c","t">>,
      tags |-> <<<<"l","i","g","h","t">>,
                 <<"r","e","f","r","a","c","t","i","o","n">>,
                 <<"c","o","l","o","r">>,
                 <<"s","h","a","p","e">>>>],
     [id |-> "8",
      title |-> <<"F","o","r","e","s","t"," ","M","i","s","t">>,
      category |-> <<"N","a","t","u","r","e">>,
      tags |-> <<<<"t","r","e","e","s">>,
                 <<"f","o","g">>,
                 <<"g","r","e","e","n">>,
                 <<"m","o","r","n","i","n","g">>>>],
     [id |-> "9",
      title |-> <<"C","y","b","e","r"," ","C","i","r","c","u","i","t">>,
      category |-> <<"T","e","c","h">>,
      tags |-> <<<<"c","o","m","p","u","t","e","r">>,
                 <<"c","h","i","p">>,
                 <<"d","a","t","a">>,
                 <<"f","u","t","u","r","e">>>>],
     [id |-> "10",
      title |-> <<"V","o","l","c","a","n","i","c"," ","A","s","h">>,
      category |-> <<"N","a","t","u","r","e">>,
      tags |-> <<<<"f","i","r","e">>,
                 <<"d","a","r","k">>,
                 <<"s","m","o","k","e">>,
                 <<"p","o","w","e","r">>>>],
     [id |-> "11",
      title |-> <<"G","e","o","m","e","t","r","i","c"," ","W","a","l","l">>,
      category |-> <<"A","r","c","h","i","t","e","c","t","u","r","e">>,
      tags |-> <<<<"p","a","t","t","e","r","n">>,
                 <<"w","h","i","t","e">>,
                 <<"s","h","a","d","o","w">>,
                 <<"m","i","n","i","m","a","l">>>>],
     [id |-> "12",
      title |-> <<"L","i","q","u","i","d"," ","G","o","l","d">>,
      category |-> <<"A","b","s","t","r","a","c","t">>,
      tags |-> <<<<"y","e","l","l","o","w">>,
                 <<"f","l","u","i","d">>,
                 <<"s","h","i","n","y">>,
                 <<"m","e","t","a","l">>>>] >>

\* the index set of a sequence
Indices(s) == 1 .. Len(s)

Items == {MOCK_ITEMS[k] : k \in Indices(MOCK_ITEMS)}

\* MOCK_ITEMS.find(i => i.id === id)
ItemOf(id) == CHOOSE it \in Items : it.id = id

---------------------------------------------------------------------------
(* Physics and layout constants (lines 51-57), in 1/SCALE pixel; a decimal *)
(* constant is <<numerator, denominator>>                                  *)

CANVAS_WIDTH == 1200 * SCALE
CANVAS_HEIGHT == 800 * SCALE
BASE_RADIUS == 60 * SCALE
MAX_RADIUS == 180 * SCALE
FRICTION == <<9, 10>>
STIFFNESS == <<5, 100>>

\* v * c for a decimal constant c, rounded to the nearest unit
Times(v, c) == IF v = NaN THEN NaN ELSE Round(v * c[1], c[2])

---------------------------------------------------------------------------
(* Strings *)

UpperCase ==
  <<"A","B","C","D","E","F","G","H","I","J","K","L","M",
    "N","O","P","Q","R","S","T","U","V","W","X","Y","Z">>
LowerCase ==
  <<"a","b","c","d","e","f","g","h","i","j","k","l","m",
    "n","o","p","q","r","s","t","u","v","w","x","y","z">>

\* String.prototype.toLowerCase
toLowerCase(s) ==
  [k \in Indices(s) |->
     IF \E u \in Indices(UpperCase) : UpperCase[u] = s[k]
     THEN LowerCase[CHOOSE u \in Indices(UpperCase) : UpperCase[u] = s[k]]
     ELSE s[k]]

\* String.prototype.includes: q occurs in s as a substring
includes(s, q) ==
  \E k \in 0 .. (Len(s) - Len(q)) : SubSeq(s, k + 1, k + Len(q)) = q

---------------------------------------------------------------------------
(* calculateRelevance (lines 61-74), in hundredths.  The double sums       *)
(* 0.6+0.3 and 0.6+0.3+0.2 differ from 0.9 and 1.1 in the last bit only.   *)

\* calculateRelevance comparing the query as typed: no q = query.toLowerCase()
calculateRelevanceAsTyped(q, item) ==
  IF Len(q) = 0 THEN 10
  ELSE LET title  == toLowerCase(item.title)
           s1     == IF includes(title, q) THEN 60 ELSE 0
           s2     == s1 + (IF includes(toLowerCase(item.category), q) THEN 30 ELSE 0)
           s3     == s2 + (IF \E t \in Indices(item.tags) :
                                 includes(toLowerCase(item.tags[t]), q)
                           THEN 20 ELSE 0)
           score  == s3 + (IF title = q THEN 40 ELSE 0)
           capped == IF score < 100 THEN score ELSE 100
       IN  IF capped # 0 THEN capped ELSE 5

calculateRelevance(q, item) ==
  IF Len(q) = 0 THEN 10
  ELSE LET lq     == toLowerCase(q)
           title  == toLowerCase(item.title)
           s1     == IF includes(title, lq) THEN 60 ELSE 0
           s2     == s1 + (IF includes(toLowerCase(item.category), lq) THEN 30 ELSE 0)
           s3     == s2 + (IF \E t \in Indices(item.tags) :
                                 includes(toLowerCase(item.tags[t]), lq)
                           THEN 20 ELSE 0)
           score  == s3 + (IF title = lq THEN 40 ELSE 0)
           capped == IF score < 100 THEN score ELSE 100
       IN  IF capped # 0 THEN capped ELSE 5

\* the value of the search box before any input (line 79)
EmptyQuery == <<>>

\* the texts typed into the search box
Queries ==
  { EmptyQuery,
    <<"N","E","O","N"," ","T","O","K","Y","O">>,
    <<"c","i","t","y">>,
    <<"d","u","s","t">>,
    <<"a">> }

\* calculateRelevance at the queries and items of the model, computed once
RelevanceOf ==
  [q \in Queries |-> [id \in {it.id : it \in Items} |-> calculateRelevance(q, ItemOf(id))]]

---------------------------------------------------------------------------
(* Initialize Points (lines 86-96) and Update Target Radii (lines 99-106)  *)

\* Math.random() * CANVAS_WIDTH, Math.random() * CANVAS_HEIGHT for the twelve
\* items: three of the draws the program can make, as <<x, y>> in pixels.
\* Spread: no two circles touch at the base radius.
LayoutSpread ==
  << <<150, 130>>, <<450, 130>>, <<750, 130>>, <<1050, 130>>,
     <<150, 400>>, <<450, 400>>, <<750, 400>>, <<1050, 400>>,
     <<150, 670>>, <<450, 670>>, <<750, 670>>, <<1050, 670>> >>
\* Column: four points on one vertical line just above the lower edge.
LayoutColumn ==
  << <<1189, 798>>, <<1189, 793>>, <<1189, 797>>, <<1189, 784>>,
     <<150, 130>>, <<450, 130>>, <<750, 130>>, <<1050, 130>>,
     <<150, 400>>, <<450, 400>>, <<750, 400>>, <<1050, 400>> >>
\* Twin: the first two draws are equal.
LayoutTwin ==
  << <<300, 200>>, <<300, 200>>, <<750, 130>>, <<1050, 130>>,
     <<150, 400>>, <<450, 400>>, <<750, 400>>, <<1050, 400>>,
     <<150, 670>>, <<450, 670>>, <<750, 670>>, <<1050, 670>> >>
Layouts == {LayoutSpread, LayoutColumn, LayoutTwin}

InitializePoints(layout) ==
  [i \in Indices(MOCK_ITEMS) |->
     [x |-> layout[i][1] * SCALE, y |-> layout[i][2] * SCALE,
      vx |-> 0, vy |-> 0,
      r |-> BASE_RADIUS, targetR |-> BASE_RADIUS,
      id |-> MOCK_ITEMS[i].id]]

\* the target radius without the threshold at 0.1
TargetRadiusLinear(relevance) ==
  BASE_RADIUS + Round((MAX_RADIUS - BASE_RADIUS) * relevance, 100)

\* BASE_RADIUS + (MAX_RADIUS - BASE_RADIUS) * (relevance > 0.1 ? relevance : 0)
TargetRadius(relevance) ==
  BASE_RADIUS
    + Round((MAX_RADIUS - BASE_RADIUS) * (IF relevance > 10 THEN relevance ELSE 0), 100)

\* the effect writing the current radius along with the target
UpdateRadii(pts, q) ==
  [i \in Indices(pts) |->
     [pts[i] EXCEPT !.targetR = TargetRadius(RelevanceOf[q][pts[i].id]),
                    !.r = TargetRadius(RelevanceOf[q][pts[i].id])]]

UpdateTargetRadii(pts, q) ==
  [i \in Indices(pts) |->
     [pts[i] EXCEPT !.targetR = TargetRadius(RelevanceOf[q][pts[i].id])]]

---------------------------------------------------------------------------
(* animate, step 1: Physics Step (lines 113-129)                           *)

\* the smoothing with a factor of 1.1
SmoothOvershoot(r, targetR) == r + Round((targetR - r) * 11, 10)

\* p.r += (p.targetR - p.r) * 0.1
Smooth(r, targetR) == r + Round(targetR - r, 10)

PhysicsStep(p) ==
  LET dx  == Sub(CANVAS_WIDTH \div 2, p.x)
      dy  == Sub(CANVAS_HEIGHT \div 2, p.y)
      vx1 == Times(Add(p.vx, Times(dx, <<1, 1000>>)), FRICTION)
      vy1 == Times(Add(p.vy, Times(dy, <<1, 1000>>)), FRICTION)
  IN  [p EXCEPT !.r = Smooth(p.r, p.targetR),
                !.vx = vx1, !.vy = vy1,
                !.x = Add(p.x, vx1), !.y = Add(p.y, vy1)]

---------------------------------------------------------------------------
(* animate, step 2: Collision Resolution (lines 133-157)                   *)

\* Math.sqrt(dx * dx + dy * dy)
Distance(dx, dy) ==
  IF dx = NaN \/ dy = NaN THEN NaN ELSE Hypot(dx, dy)

\* the direction as (dx / dist, dy / dist): 0 / 0 is NaN
PushVectorByDivision(dx, dy, dist, force) ==
  IF dist = 0 THEN <<NaN, NaN>>
  ELSE <<Round(dx * force, dist), Round(dy * force, dist)>>

\* <<Math.cos(angle) * force, Math.sin(angle) * force>> for
\* angle = Math.atan2(dy, dx).  Math.atan2(0, 0) is 0, whose cosine is 1 and
\* sine 0; elsewhere the cosine and sine are dx/dist and dy/dist.
PushVector(dx, dy, dist, force) ==
  IF dx = 0 /\ dy = 0 THEN <<force, 0>>
  ELSE <<Round(dx * force, dist), Round(dy * force, dist)>>

\* the body of the inner loop for the pair (i, j)
ResolvePair(pts, i, j) ==
  LET p1      == pts[i]
      p2      == pts[j]
      dx      == Sub(p2.x, p1.x)
      dy      == Sub(p2.y, p1.y)
      dist    == Distance(dx, dy)
      minDist == Times(p1.r + p2.r, <<8, 10>>)
  IN  IF dist # NaN /\ dist < minDist
      THEN LET f == PushVector(dx, dy, dist, Times(minDist - dist, STIFFNESS))
           IN  [pts EXCEPT ![i].x = Sub(@, f[1]), ![i].y = Sub(@, f[2]),
                           ![j].x = Add(@, f[1]), ![j].y = Add(@, f[2])]
      ELSE pts

\* the pair (i, j) is at one position: dist = 0
Coincide(pts, i, j) == pts[i].x = pts[j].x /\ pts[i].y = pts[j].y

\* one iteration of the inner loop on the pass so far; met counts the pairs
\* met at dist = 0
PairStep(st, i, j) ==
  [points |-> ResolvePair(st.points, i, j),
   met    |-> IF Coincide(st.points, i, j) THEN st.met + 1 ELSE st.met]

\* for (let j = ...; j < points.length; j++), from j on
RECURSIVE InnerLoop(_, _, _)
InnerLoop(st, i, j) ==
  IF j > Len(st.points) THEN st ELSE InnerLoop(PairStep(st, i, j), i, j + 1)

\* for (let i = ...; i < points.length; i++), from i on
RECURSIVE OuterLoop(_, _)
OuterLoop(st, i) ==
  IF i > Len(st.points) THEN st ELSE OuterLoop(InnerLoop(st, i, i + 1), i + 1)

CollisionResolution(pts) == OuterLoop([points |-> pts, met |-> 0], 1)

---------------------------------------------------------------------------
(* animate, step 3: Keep within bounds (lines 160-163)                     *)

\* the clamp without its upper limits
KeepAboveZero(pts) ==
  [i \in Indices(pts) |->
     [pts[i] EXCEPT !.x = IF @ # NaN /\ @ < 0 THEN 0 ELSE @,
                    !.y = IF @ # NaN /\ @ < 0 THEN 0 ELSE @]]

KeepWithinBounds(pts) ==
  [i \in Indices(pts) |->
     [pts[i] EXCEPT !.x = Clamp(@, 0, CANVAS_WIDTH),
                    !.y = Clamp(@, 0, CANVAS_HEIGHT)]]

---------------------------------------------------------------------------
(* animate, steps 4 and 5: Voronoi and Cell Data (lines 167-181).          *)
(* d3-delaunay is a dependency, not part of the repository.  What is       *)
(* modelled of it is whether renderCell(i) yields a path: of the points    *)
(* at one position the triangulation keeps one generator (which one is     *)
(* the library's choice) and renderCell returns no path for the others.    *)
(* The polygon itself is not modelled: a path is Polygon or NoPath.        *)

Polygon == "polygon"
NoPath == "undefined"

\* the index sets Delaunay.from may keep as generators
DelaunayGenerators(pts) ==
  LET dup == {i \in Indices(pts) : \E j \in Indices(pts) \ {i} : Coincide(pts, i, j)}
  IN  {(Indices(pts) \ dup) \cup R :
         R \in {S \in SUBSET dup :
                  \A i \in dup : Cardinality({j \in S : Coincide(pts, i, j)}) = 1}}

\* voronoi.renderCell(i)
renderCell(kept, i) == IF i \in kept THEN Polygon ELSE NoPath

\* the cells with those that have no path left out
GenerateCellsWithPath(pts, kept) ==
  SelectSeq([i \in Indices(pts) |->
               [path      |-> renderCell(kept, i),
                item      |-> ItemOf(pts[i].id).id,
                relevance |-> Round((pts[i].r - BASE_RADIUS) * 100, MAX_RADIUS - BASE_RADIUS),
                center    |-> <<pts[i].x, pts[i].y>>]],
            LAMBDA c : c.path # NoPath)

\* points.map((p, i) => ({path, item, relevance, center})); the item is
\* recorded by its id and the relevance in hundredths
GenerateCells(pts, kept) ==
  [i \in Indices(pts) |->
     [path      |-> renderCell(kept, i),
      item      |-> ItemOf(pts[i].id).id,
      relevance |-> Round((pts[i].r - BASE_RADIUS) * 100, MAX_RADIUS - BASE_RADIUS),
      center    |-> <<pts[i].x, pts[i].y>>]]

---------------------------------------------------------------------------
(* The host's animation frames and the component's life cycle              *)

\* the handle requestAnimationFrame returns after h
NextHandle(h) == (h % MaxHandle) + 1

\* animate requesting two frames
RescheduleTwice(pend, h, new) == (pend \ {h}) \cup {new, NextHandle(new)}

\* the host's callback list after it ran callback h, whose last statement
\* requested handle new (line 184)
Reschedule(pend, h, new) == (pend \ {h}) \cup {new}

\* a cleanup cancelling the handle the effect itself requested at mount
CleanupFirst(pend, ref) == pend \ {NextHandle(0)}

\* the effect's cleanup (line 190), on the host's callback list
Cleanup(pend, ref) == IF ref # 0 THEN pend \ {ref} ELSE pend

Init ==
  /\ phase = "constructed"
  /\ query = EmptyQuery
  /\ cells = <<>>
  /\ points = <<>>
  /\ requestRef = 0
  /\ pending = {}
  /\ lastHandle = 0
  /\ ticks = 0
  /\ quiet = 0
  /\ coincident = 0

\* the three effects of the first commit, in order (lines 86-96, 99-106, 187-188)
Mount ==
  /\ phase = "constructed"
  /\ \E layout \in Layouts :
       points' = UpdateTargetRadii(InitializePoints(layout), query)
  /\ requestRef' = NextHandle(lastHandle)
  /\ lastHandle' = NextHandle(lastHandle)
  /\ pending' = pending \cup {NextHandle(lastHandle)}
  /\ phase' = "mounted"
  /\ UNCHANGED <<query, cells, ticks, quiet, coincident>>

\* onChange / the clear button: setQuery(q), then the [query] effect (lines 99-106)
SetQuery(q) ==
  /\ phase = "mounted"
  /\ q # query
  /\ query' = q
  /\ points' = UpdateTargetRadii(points, q)
  /\ quiet' = 0
  /\ UNCHANGED <<phase, cells, requestRef, pending, lastHandle, ticks, coincident>>

\* the host runs the requested callback h: animate (lines 109-185)
Animate(h) ==
  LET moved   == [i \in Indices(points) |-> PhysicsStep(points[i])]
      pass    == CollisionResolution(moved)
      bounded == KeepWithinBounds(pass.points)
      new     == NextHandle(lastHandle)
  IN  /\ h \in pending
      /\ points' = bounded
      /\ coincident' = pass.met
      /\ \E kept \in DelaunayGenerators(bounded) :
           cells' = GenerateCells(bounded, kept)
      /\ requestRef' = new
      /\ lastHandle' = new
      /\ pending' = Reschedule(pending, h, new)
      /\ quiet' = (IF query = EmptyQuery THEN quiet + 1 ELSE 0)
      /\ UNCHANGED <<phase, query>>

Tick ==
  /\ ticks < MaxTicks
  /\ \E h \in pending : Animate(h)
  /\ ticks' = ticks + 1

\* the component unmounts: the cleanup of the animation effect (lines 189-191)
Unmount ==
  /\ phase = "mounted"
  /\ phase' = "unmounted"
  /\ pending' = Cleanup(pending, requestRef)
  /\ UNCHANGED <<query, cells, points, requestRef, lastHandle, ticks, quiet, coincident>>

Next ==
  \/ Mount
  \/ \E q \in Queries : SetQuery(q)
  \/ Tick
  \/ Unmount

Spec == Init /\ [][Next]_vars

---------------------------------------------------------------------------
(* The specification of the settling runs: a query typed before the first  *)
(* frame may be cleared during the first GrowTicks frames, and the frames  *)
(* go on for SettleTicks more.                                             *)

TypeAtStart == ticks = 0 /\ \E q \in Queries \ {EmptyQuery} : SetQuery(q)

ClearQuery == ticks <= GrowTicks /\ SetQuery(EmptyQuery)

Frame ==
  /\ ticks < GrowTicks + SettleTicks
  /\ \E h \in pending : Animate(h)
  /\ ticks' = ticks + 1

SettleNext ==
  \/ Mount
  \/ TypeAtStart
  \/ ClearQuery
  \/ Frame

SettleSpec == Init /\ [][SettleNext]_vars

---------------------------------------------------------------------------
(* Claims *)

\* C1: in every reachable state every Point's current radius r satisfies
\* BASE_RADIUS <= r <= MAX_RADIUS.
RadiusWithinRange ==
  \A i \in Indices(points) :
    points[i].r >= BASE_RADIUS /\ points[i].r <= MAX_RADIUS

\* C1 witness: after a frame under a matching query a radius has grown and is
\* still below its target
RadiusGrowing ==
  /\ ticks > 0
  /\ \E i \in Indices(points) :
       points[i].r > BASE_RADIUS /\ points[i].r < points[i].targetR

\* C2: at the end of every tick every Point has 0 <= x <= W and 0 <= y <= H,
\* and the center of every Cell the tick published is that clamped position.
PositionsWithinCanvas ==
  /\ \A i \in Indices(points) :
       /\ points[i].x >= 0 /\ points[i].x <= CANVAS_WIDTH
       /\ points[i].y >= 0 /\ points[i].y <= CANVAS_HEIGHT
  /\ ticks > 0 =>
       /\ Len(cells) = Len(points)
       /\ \A i \in Indices(cells) : cells[i].center = <<points[i].x, points[i].y>>

\* C2 witness: a tick has clamped a Point onto the lower edge, and its Cell is
\* centred there
ClampedOntoEdge ==
  /\ ticks > 0
  /\ \E i \in Indices(points) :
       /\ points[i].y = CANVAS_HEIGHT
       /\ points[i].vy # 0
       /\ cells[i].center = <<points[i].x, CANVAS_HEIGHT>>

\* what C3 says of one query and one item
RelevanceContract(q, item) ==
  LET lq       == toLowerCase(q)
      inTitle  == includes(toLowerCase(item.title), lq)
      inCat    == includes(toLowerCase(item.category), lq)
      inTag    == \E t \in Indices(item.tags) : includes(toLowerCase(item.tags[t]), lq)
      isTitle  == toLowerCase(item.title) = lq
      sum      == (IF inTitle THEN 60 ELSE 0) + (IF inCat THEN 30 ELSE 0)
                    + (IF inTag THEN 20 ELSE 0) + (IF isTitle THEN 40 ELSE 0)
      score    == calculateRelevance(q, item)
  IN  /\ score >= 5 /\ score <= 100
      /\ q = EmptyQuery => score = 10
      /\ q # EmptyQuery =>
           /\ score = (IF sum = 0 THEN 5 ELSE IF sum > 100 THEN 100 ELSE sum)
           /\ isTitle => score = 100
           /\ (inTag /\ ~inTitle /\ ~inCat) => score = 20
           /\ (inTitle /\ inTag /\ ~inCat /\ ~isTitle) => score = 80
           /\ (~inTitle /\ ~inCat /\ ~inTag) => score = 5

ContractOf == [q \in Queries |-> \A item \in Items : RelevanceContract(q, item)]

\* C3: for the query in the search box and every item the relevance score is
\* 0.1 when the query is empty; otherwise the sum of 0.6 (title contains),
\* 0.3 (category contains), 0.2 (a tag contains) and 0.4 (title equals),
\* case-insensitively, capped at 1.0 and 0.05 when the sum is 0; so it is in
\* [0.05, 1], 1.0 on an exact title, 0.2 on a tag alone, 0.8 on title and
\* tag, 0.05 when nothing matches.
RelevanceAsSpecified == ContractOf[query]

\* C3 witness: the query matches one item by title and tag (0.8), another not
\* at all (0.05), and the scores have been applied to the Points
TitleAndTagScored ==
  /\ query # EmptyQuery
  /\ \E i, j \in Indices(points) :
       /\ RelevanceOf[query][points[i].id] = 80
       /\ points[i].targetR = BASE_RADIUS + 96 * SCALE
       /\ RelevanceOf[query][points[j].id] = 5

\* C4: a query change writes only targetR: BASE_RADIUS when the score is at
\* most 0.1, BASE_RADIUS + (MAX_RADIUS - BASE_RADIUS) * score otherwise;
\* position, velocity and current radius are unchanged, and no Cells are
\* published nor a tick run by the change itself.
QueryChangeWritesTargetsOnly ==
  [][query' # query =>
       /\ Len(points') = Len(points)
       /\ \A i \in Indices(points) :
            LET score == RelevanceOf[query'][points[i].id]
            IN  points'[i] =
                  [points[i] EXCEPT !.targetR =
                     IF score <= 10 THEN BASE_RADIUS
                     ELSE BASE_RADIUS + ((MAX_RADIUS - BASE_RADIUS) * score) \div 100]
       /\ cells' = cells
       /\ ticks' = ticks
       /\ pending' = pending
       /\ requestRef' = requestRef]_vars

\* C4 witness: a query typed after a frame has raised a target, with the
\* radius and the published Cells still those of the frame
TargetRaisedAfterFrame ==
  /\ ticks > 0
  /\ query # EmptyQuery
  /\ \E i \in Indices(points) :
       /\ points[i].targetR = MAX_RADIUS
       /\ points[i].r = BASE_RADIUS
       /\ cells[i].relevance = 0

\* C5: once the cleanup has run, no tick runs and none is requested: the
\* request cancelled is the one pending at that moment, however many ticks
\* ran before.
NoTickAfterUnmount ==
  /\ [](phase = "unmounted" => pending = {})
  /\ [][phase = "unmounted" =>
          ticks' = ticks /\ cells' = cells /\ points' = points /\ pending' = pending]_vars

\* C5 witness: unmounted after two ticks, nothing pending
UnmountedAfterTicks ==
  /\ phase = "unmounted"
  /\ ticks >= 2
  /\ requestRef # NextHandle(0)
  /\ pending = {}

\* C6: at most one tick request is outstanding, and while mounted it is the
\* one requestRef holds; a tick steps every Point from the state the last
\* tick and the query changes since left (physics with the current targets,
\* collision, clamp), publishes one Cell per Point and requests exactly one
\* successor; a query change is no part of a tick.
TicksSequential ==
  /\ [](Cardinality(pending) <= 1 /\ (phase = "mounted" => pending = {requestRef}))
  /\ [][ticks' # ticks =>
          /\ ticks' = ticks + 1
          /\ query' = query
          /\ points' = KeepWithinBounds(
                         CollisionResolution(
                           [i \in Indices(points) |-> PhysicsStep(points[i])]).points)
          /\ \A i \in Indices(points) :
               /\ points'[i].r = points[i].r + Round(points[i].targetR - points[i].r, 10)
               /\ points'[i].targetR = points[i].targetR
          /\ Len(cells') = Len(points')
          /\ Cardinality(pending') = 1
          /\ pending' \cap pending = {}]_vars
  /\ [][query' # query => ticks' = ticks /\ cells' = cells /\ pending' = pending]_vars

\* C6 witness: the second tick ran after a query change, one request pending
SecondTickAfterQuery ==
  /\ ticks >= 2
  /\ phase = "mounted"
  /\ query # EmptyQuery
  /\ pending = {requestRef}
  /\ \E i \in Indices(points) : points[i].r > BASE_RADIUS

Settled == \A i \in Indices(points) : points[i].r - BASE_RADIUS <= Epsilon
                                      /\ BASE_RADIUS - points[i].r <= Epsilon

\* C8: if the query is empty and stays empty while the ticks keep running,
\* every radius gets within Epsilon of BASE_RADIUS and stays there: it is
\* there after SettleTicks ticks of an empty query, and on every tick after.
RadiiSettle == quiet >= SettleTicks => Settled

\* C8 witness: SettleTicks ticks after the query was cleared, a radius that
\* had grown is back within Epsilon of BASE_RADIUS
SettledFromAbove ==
  /\ query = EmptyQuery
  /\ quiet >= SettleTicks
  /\ ticks > quiet
  /\ Settled
  /\ \E i \in Indices(points) : points[i].r > BASE_RADIUS

\* C10: no coordinate is NaN, and the collision step of a pair at one
\* position (dist = 0) moves the two Points by opposite, non-zero, finite
\* amounts and no other Point.
CoincidentPairSeparated ==
  /\ \A i \in Indices(points) : points[i].x # NaN /\ points[i].y # NaN
  /\ \A i, j \in Indices(points) :
       (i < j /\ Coincide(points, i, j)) =>
         LET after == ResolvePair(points, i, j)
             mx    == after[j].x - points[j].x
             my    == after[j].y - points[j].y
         IN  /\ after[i].x # NaN /\ after[i].y # NaN
             /\ after[j].x # NaN /\ after[j].y # NaN
             /\ <<mx, my>> # <<0, 0>>
             /\ after[i].x = points[i].x - mx
             /\ after[i].y = points[i].y - my
             /\ \A k \in Indices(points) \ {i, j} : after[k] = points[k]

\* C10 witness: the last collision pass met a pair at dist = 0 and the Points
\* are at distinct, finite positions after it
CoincidentPairMet ==
  /\ coincident > 0
  /\ \A i, j \in Indices(points) : i < j => ~Coincide(points, i, j)
  /\ \A i \in Indices(points) : points[i].x # NaN /\ points[i].y # NaN

====
